---- MODULE Spec2Model ----
(***************************************************************************)
(* Refresh-token lifecycle of the API (api/src/lib/refreshStore.ts) and    *)
(* the HTTP handlers that drive it (auth/bootstrap, auth/refresh,          *)
(* auth/logout), as a state machine.                                       *)
(*                                                                         *)
(* Conventions                                                             *)
(*   - an optional JavaScript value (string | undefined) is a set with at  *)
(*     most one element: {} is undefined, {v} is the value v;              *)
(*   - a JavaScript string that the code parses is a sequence of           *)
(*     one-character strings;                                              *)
(*   - an optional boolean (revoked?: boolean) is FALSE while it is        *)
(*     undefined: the code only ever tests its truthiness;                 *)
(*   - Node runs a synchronous function to completion, so a call of        *)
(*     issue / verify / rotate / revokeByJti is one step.                  *)
(***************************************************************************)
EXTENDS Integers, Sequences, FiniteSets, Bags, TLC

(* ------------------------------ bounds --------------------------------- *)
\* raw tokens randomToken() can draw
MaxTokens == 3
\* ids crypto.randomUUID() can draw (so: records the store can come to hold)
MaxJti == 3
\* the clock runs from 0 to MaxNow seconds
MaxNow == 1
\* bootstrapAuth invocations suspended at an await at once
MaxBootstraps == 1
\* the same, where the requests that run together are the subject
MaxConcurrent == 2

Tokens == 1..MaxTokens
Jtis == 1..MaxJti
Users == {"u1", "u2"}

(* --------------------------- configuration ----------------------------- *)
Str(s) == {s}
\* values of REFRESH_TOKEN_TTL the process is started with: unset, "0"
\* and "900ms" (one second)
TtlInputs ==
  { {},
    Str(<<"0">>),
    Str(<<"9", "0", "0", "m", "s">>) }

VARIABLES
  env,            \* process.env, read once at module load
  now,            \* Math.floor(Date.now() / 1000)
  byJti,          \* Map jti -> Record
  byTokenHash,    \* Map tokenHash -> jti
  last,           \* observation: the issue or rotate call just made, its result, the records before it
  rotateLog,      \* observation: per presented token, how many rotate calls saw reused = false / true
  revokeLog,      \* observation: ids revokeByJti was called with while a record had them
  db,             \* the relational database behind prisma: users, accounts, appUsers
  procs,          \* bag of bootstrapAuth invocations suspended at an await
  reply           \* observation: the reply a handler just sent, and what the handler did to the store

vars == <<env, now, byJti, byTokenHash, last, rotateLog, revokeLog, db, procs, reply>>
httpVars == <<db, procs, reply>>

(* ------------------------- parseTtlSeconds ----------------------------- *)
Digits == {"0", "1", "2", "3", "4", "5", "6", "7", "8", "9"}

DigitValue(c) ==
  CASE c = "0" -> 0 [] c = "1" -> 1 [] c = "2" -> 2 [] c = "3" -> 3
    [] c = "4" -> 4 [] c = "5" -> 5 [] c = "6" -> 6 [] c = "7" -> 7
    [] c = "8" -> 8 [] c = "9" -> 9

\* toLowerCase on the letters a unit can hold
toLowerCase(c) ==
  CASE c = "M" -> "m" [] c = "S" -> "s" [] c = "H" -> "h" [] c = "D" -> "d"
    [] OTHER -> c

LowerSeq(s) == [i \in 1..Len(s) |-> toLowerCase(s[i])]

\* length of the longest prefix of digits: what the greedy (\d+) takes
RECURSIVE DigitPrefixLen(_)
DigitPrefixLen(s) ==
  IF s = <<>> \/ Head(s) \notin Digits THEN 0 ELSE 1 + DigitPrefixLen(Tail(s))

\* parseInt(digits, 10)
RECURSIVE parseInt(_)
parseInt(ds) ==
  IF ds = <<>> THEN 0
  ELSE 10 * parseInt(SubSeq(ds, 1, Len(ds) - 1)) + DigitValue(ds[Len(ds)])

Units == { <<"m", "s">>, <<"s">>, <<"m">>, <<"h">>, <<"d">> }

\* mutant: milliseconds rounded down to whole seconds
CeilDiv1000_Floor(n) == n \div 1000

\* Math.ceil(n / 1000)
CeilDiv1000(n) == (n + 999) \div 1000

ThirtyDays == 30 * 24 * 3600

parseTtlSeconds(input, fallback) ==
  LET s == IF input = {} THEN fallback ELSE CHOOSE x \in input : TRUE
      k == DigitPrefixLen(s)
      rest == LowerSeq(SubSeq(s, k + 1, Len(s)))
      matches == k >= 1 /\ (rest = <<>> \/ rest \in Units)
      n == parseInt(SubSeq(s, 1, k))
      unit == IF rest = <<>> THEN <<"s">> ELSE rest
  IN IF ~matches THEN ThirtyDays
     ELSE CASE unit = <<"m", "s">> -> CeilDiv1000(n)
            [] unit = <<"s">> -> n
            [] unit = <<"m">> -> n * 60
            [] unit = <<"h">> -> n * 3600
            [] unit = <<"d">> -> n * 86400

REFRESH_TTL_SECONDS == parseTtlSeconds(env.REFRESH_TOKEN_TTL, <<"3", "0", "d">>)

(* ----------------------------- the store ------------------------------- *)
\* sha256 of the token: a value that is not the token, one per token
hashToken(token) == <<"sha256", token>>

\* mutant: the boundary now = expiresAt taken as still valid
isExpired_Strict(nowSec, expiresAt) == nowSec > expiresAt

isExpired(nowSec, expiresAt) == nowSec >= expiresAt

Store == [byJti |-> byJti, byTokenHash |-> byTokenHash]

\* Map.set(k, v)
MapSet(m, k, v) == [x \in DOMAIN m \cup {k} |-> IF x = k THEN v ELSE m[x]]

\* Tokens and ids are opaque and every operation is invariant under renaming
\* them, so of the values a random draw can give one representative is taken:
\* the smallest unused token, the largest unused id.
\* randomToken(): 32 random bytes; a draw never repeats a token already stored
FreshTokens(S) ==
  LET free == {t \in Tokens : hashToken(t) \notin DOMAIN S.byTokenHash}
  IN {t \in free : \A u \in free : t <= u}

\* crypto.randomUUID(): a draw never repeats an id already stored
FreshJtis(S) ==
  LET free == Jtis \ DOMAIN S.byJti
  IN {j \in free : \A k \in free : j >= k}

\* mutant: the record is stored by id and the digest index is not written
issue_NoDigestIndex(S, userId, token, jti, nowSec) ==
  LET rec == [jti |-> jti, userId |-> userId, tokenHash |-> <<"sha256", token>>,
              expiresAt |-> nowSec + parseTtlSeconds(env.REFRESH_TOKEN_TTL, <<"3", "0", "d">>),
              rotatedTo |-> {}, revoked |-> FALSE]
  IN [store |-> [byJti |-> [x \in DOMAIN S.byJti \cup {jti} |->
                              IF x = jti THEN rec ELSE S.byJti[x]],
                 byTokenHash |-> S.byTokenHash],
      result |-> [token |-> token, jti |-> jti, userId |-> userId,
                  expiresAt |-> rec.expiresAt]]

\* mutant: one session per subject; the subject's older records are revoked
issue_OneSessionPerUser(S, userId, token, jti, nowSec) ==
  LET tokenHash == hashToken(token)
      rec == [jti |-> jti, userId |-> userId, tokenHash |-> tokenHash,
              expiresAt |-> nowSec + REFRESH_TTL_SECONDS,
              rotatedTo |-> {}, revoked |-> FALSE]
      kept == [j \in DOMAIN S.byJti |->
                 IF S.byJti[j].userId = userId
                 THEN [S.byJti[j] EXCEPT !.revoked = TRUE] ELSE S.byJti[j]]
  IN [store |-> [byJti |-> MapSet(kept, jti, rec),
                 byTokenHash |-> MapSet(S.byTokenHash, tokenHash, jti)],
      result |-> [token |-> token, jti |-> jti, userId |-> userId,
                  expiresAt |-> rec.expiresAt]]

\* issue(userId), with the two random draws as parameters
issue(S, userId, token, jti, nowSec) ==
  LET tokenHash == hashToken(token)
      rec == [jti |-> jti, userId |-> userId, tokenHash |-> tokenHash,
              expiresAt |-> nowSec + REFRESH_TTL_SECONDS,
              rotatedTo |-> {}, revoked |-> FALSE]
  IN [store |-> [byJti |-> MapSet(S.byJti, jti, rec),
                 byTokenHash |-> MapSet(S.byTokenHash, tokenHash, jti)],
      result |-> [token |-> token, jti |-> jti, userId |-> userId,
                  expiresAt |-> rec.expiresAt]]

Failure(e) == [ok |-> FALSE, error |-> e]

\* mutant: a token with no record is reported as expired
verify_MissingIsExpired(S, token, nowSec) ==
  LET h == hashToken(token) IN
  IF h \notin DOMAIN S.byTokenHash THEN Failure("EXPIRED_REFRESH")
  ELSE LET rec == S.byJti[S.byTokenHash[h]] IN
    IF rec.revoked THEN Failure("REVOKED_REFRESH")
    ELSE IF isExpired(nowSec, rec.expiresAt) THEN Failure("EXPIRED_REFRESH")
    ELSE [ok |-> TRUE, error |-> "", jti |-> rec.jti, userId |-> rec.userId,
          expiresAt |-> rec.expiresAt]

\* mutant: the revoked flag is not tested
verify_IgnoresRevoked(S, token, nowSec) ==
  LET h == hashToken(token) IN
  IF h \notin DOMAIN S.byTokenHash THEN Failure("INVALID_REFRESH")
  ELSE LET rec == S.byJti[S.byTokenHash[h]] IN
    IF isExpired(nowSec, rec.expiresAt) THEN Failure("EXPIRED_REFRESH")
    ELSE [ok |-> TRUE, error |-> "", jti |-> rec.jti, userId |-> rec.userId,
          expiresAt |-> rec.expiresAt]

\* verify(token)
verify(S, token, nowSec) ==
  LET h == hashToken(token) IN
  IF h \notin DOMAIN S.byTokenHash THEN Failure("INVALID_REFRESH")
  ELSE LET jti == S.byTokenHash[h] IN
    IF jti \notin DOMAIN S.byJti THEN Failure("INVALID_REFRESH")
    ELSE LET rec == S.byJti[jti] IN
      IF rec.revoked THEN Failure("REVOKED_REFRESH")
      ELSE IF isExpired(nowSec, rec.expiresAt) THEN Failure("EXPIRED_REFRESH")
      ELSE [ok |-> TRUE, error |-> "", jti |-> rec.jti, userId |-> rec.userId,
            expiresAt |-> rec.expiresAt]

\* mutant: reuse is never reported
rotateReused_Never(rec) == FALSE
\* mutant: the reuse test reads rotatedTo after rotate has written it
rotateReused_AfterWrite(rec) == TRUE

\* rotate's reuse test: !!rec.rotatedTo
rotateReused(rec) == rec.rotatedTo # {}

\* mutant: rotate leaves the old record valid
rotate_KeepsOld(S, oldToken, token, jti, nowSec) ==
  LET h == hashToken(oldToken) IN
  IF h \notin DOMAIN S.byTokenHash THEN Failure("INVALID_REFRESH")
  ELSE LET old == S.byTokenHash[h] IN
    IF old \notin DOMAIN S.byJti THEN Failure("INVALID_REFRESH")
    ELSE
      LET rec == S.byJti[old]
          next == issue(S, rec.userId, token, jti, nowSec)
          S2 == [next.store EXCEPT !.byJti[old].rotatedTo = {next.result.jti}]
      IN [ok |-> TRUE, error |-> "", store |-> S2, result |-> next.result,
          reused |-> rotateReused(rec)]

\* mutant: a reuse also revokes the successor the record points to
rotate_RevokesFamily(S, oldToken, token, jti, nowSec) ==
  LET h == hashToken(oldToken) IN
  IF h \notin DOMAIN S.byTokenHash THEN Failure("INVALID_REFRESH")
  ELSE
    LET old == S.byTokenHash[h]
        rec == S.byJti[old]
        S1 == [S EXCEPT !.byJti = [j \in DOMAIN S.byJti |->
                 IF j = old \/ j \in rec.rotatedTo
                 THEN [S.byJti[j] EXCEPT !.revoked = TRUE] ELSE S.byJti[j]]]
        next == issue(S1, rec.userId, token, jti, nowSec)
        S2 == [next.store EXCEPT !.byJti[old].rotatedTo = {next.result.jti}]
    IN [ok |-> TRUE, error |-> "", store |-> S2, result |-> next.result,
        reused |-> rotateReused(rec)]

\* mutant: the revoked flag is written with the value of the reuse test
rotate_RevokedIfReused(S, oldToken, token, jti, nowSec) ==
  LET h == hashToken(oldToken) IN
  IF h \notin DOMAIN S.byTokenHash THEN Failure("INVALID_REFRESH")
  ELSE
    LET old == S.byTokenHash[h]
        rec == S.byJti[old]
        S1 == [S EXCEPT !.byJti[old].revoked = rotateReused(rec)]
        next == issue(S1, rec.userId, token, jti, nowSec)
        S2 == [next.store EXCEPT !.byJti[old].rotatedTo = {next.result.jti}]
    IN [ok |-> TRUE, error |-> "", store |-> S2, result |-> next.result,
        reused |-> rotateReused(rec)]

\* mutant: the old record is revoked and the successor issued, the link from
\* the one to the other is not written
rotate_NoLink(S, oldToken, token, jti, nowSec) ==
  LET h == hashToken(oldToken) IN
  IF h \notin DOMAIN S.byTokenHash THEN Failure("INVALID_REFRESH")
  ELSE
    LET old == S.byTokenHash[h]
        rec == S.byJti[old]
        S1 == [S EXCEPT !.byJti[old].revoked = TRUE]
        next == issue(S1, rec.userId, token, jti, nowSec)
    IN [ok |-> TRUE, error |-> "", store |-> next.store, result |-> next.result,
        reused |-> rotateReused(rec)]

\* mutant: a token without a record is given one, as if it were presented
\* to issue
rotate_IssuesForMissing(S, oldToken, token, jti, nowSec) ==
  LET h == hashToken(oldToken) IN
  IF h \notin DOMAIN S.byTokenHash
  THEN LET next == issue(S, "", token, jti, nowSec)
       IN [ok |-> TRUE, error |-> "", store |-> next.store, result |-> next.result,
           reused |-> FALSE]
  ELSE
    LET old == S.byTokenHash[h]
        rec == S.byJti[old]
        S1 == [S EXCEPT !.byJti[old].revoked = TRUE]
        next == issue(S1, rec.userId, token, jti, nowSec)
        S2 == [next.store EXCEPT !.byJti[old].rotatedTo = {next.result.jti}]
    IN [ok |-> TRUE, error |-> "", store |-> S2, result |-> next.result,
        reused |-> rotateReused(rec)]

\* rotate(oldToken), with issue's two random draws as parameters
rotate(S, oldToken, token, jti, nowSec) ==
  LET h == hashToken(oldToken) IN
  IF h \notin DOMAIN S.byTokenHash THEN Failure("INVALID_REFRESH")
  ELSE LET old == S.byTokenHash[h] IN
    IF old \notin DOMAIN S.byJti THEN Failure("INVALID_REFRESH")
    ELSE
      LET rec == S.byJti[old]
          reused == rotateReused(rec)
          S1 == [S EXCEPT !.byJti[old].revoked = TRUE]
          next == issue(S1, rec.userId, token, jti, nowSec)
          S2 == [next.store EXCEPT !.byJti[old].rotatedTo = {next.result.jti}]
      IN [ok |-> TRUE, error |-> "", store |-> S2, result |-> next.result,
          reused |-> reused]

\* mutant: a record that verify finds expired is marked revoked
verifyStore_RevokesExpired(S, token, nowSec) ==
  IF verify(S, token, nowSec) = Failure("EXPIRED_REFRESH")
  THEN [S EXCEPT !.byJti[S.byTokenHash[hashToken(token)]].revoked = TRUE]
  ELSE S

\* the store after verify(token): verify writes nothing
verifyStore(S, token, nowSec) == S

\* mutant: the record is deleted from the by-id index
revokeByJti_Deletes(S, jti) ==
  [S EXCEPT !.byJti = [j \in DOMAIN S.byJti \ {jti} |-> S.byJti[j]]]

\* mutant: an id without a record gets a revoked record
revokeByJti_Upsert(S, jti) ==
  IF jti \notin DOMAIN S.byJti
  THEN [S EXCEPT !.byJti = MapSet(S.byJti, jti,
          [jti |-> jti, userId |-> "", tokenHash |-> hashToken(0), expiresAt |-> 0,
           rotatedTo |-> {}, revoked |-> TRUE])]
  ELSE [S EXCEPT !.byJti[jti].revoked = TRUE]

\* mutant: the flag is set on a copy of the record, the stored one is unchanged
revokeByJti_OnCopy(S, jti) == S

\* revokeByJti(jti)
revokeByJti(S, jti) ==
  IF jti \notin DOMAIN S.byJti THEN S
  ELSE [S EXCEPT !.byJti[jti].revoked = TRUE]

(* --------------------------- observations ------------------------------ *)
NoLast == [op |-> "none"]
NoReply == [handler |-> "none"]

LogRotate(log, token, reused) ==
  LET c == IF token \in DOMAIN log THEN log[token] ELSE [first |-> 0, reuse |-> 0]
  IN MapSet(log, token,
            IF reused THEN [c EXCEPT !.reuse = @ + 1] ELSE [c EXCEPT !.first = @ + 1])

(* ------------------------------- Init ---------------------------------- *)
Constructed ==
  /\ now = 0
  /\ byJti = <<>>
  /\ byTokenHash = <<>>
  /\ last = NoLast
  /\ rotateLog = <<>>
  /\ revokeLog = {}
  /\ db = [users |-> {}, accounts |-> {}, appUsers |-> {}]
  /\ procs = EmptyBag
  /\ reply = NoReply

\* the store's functions called directly
Init ==
  /\ env \in [REFRESH_TOKEN_TTL : TtlInputs, CORS_ALLOWED_ORIGIN : {{}},
              APP_ENV : {{}}, NODE_ENV : {{}}, COOKIE_DOMAIN : {{}}]
  /\ Constructed

(* ------------------------ store calls as steps ------------------------- *)
Issue(userId) ==
  \E token \in FreshTokens(Store), jti \in FreshJtis(Store) :
    \E r \in {issue(Store, userId, token, jti, now)} :
    /\ byJti' = r.store.byJti
    /\ byTokenHash' = r.store.byTokenHash
    /\ last' = [op |-> "issue", userId |-> userId, result |-> r.result,
                pre |-> byJti]
    /\ UNCHANGED <<env, now, rotateLog, revokeLog, httpVars>>

\* verify(token): a read; its result in a state is verify(Store, token, now)
Verify(token) ==
  /\ byJti' = verifyStore(Store, token, now).byJti
  /\ byTokenHash' = verifyStore(Store, token, now).byTokenHash
  /\ last' = NoLast
  /\ UNCHANGED <<env, now, rotateLog, revokeLog, httpVars>>

Rotate(oldToken) ==
  \/ /\ ~rotate(Store, oldToken, oldToken, 0, now).ok
     /\ last' = [op |-> "rotate", token |-> oldToken,
                 result |-> rotate(Store, oldToken, oldToken, 0, now), pre |-> byJti]
     /\ UNCHANGED <<env, now, byJti, byTokenHash, rotateLog, revokeLog, httpVars>>
  \/ \E token \in FreshTokens(Store), jti \in FreshJtis(Store) :
       \E r \in {rotate(Store, oldToken, token, jti, now)} :
       /\ r.ok
       /\ byJti' = r.store.byJti
       /\ byTokenHash' = r.store.byTokenHash
       /\ last' = [op |-> "rotate", token |-> oldToken,
                   result |-> [ok |-> TRUE, error |-> "", result |-> r.result,
                               reused |-> r.reused],
                   pre |-> byJti]
       /\ rotateLog' = LogRotate(rotateLog, oldToken, r.reused)
       /\ UNCHANGED <<env, now, revokeLog, httpVars>>

RevokeByJti(jti) ==
  \E S2 \in {revokeByJti(Store, jti)} :
  /\ byJti' = S2.byJti
  /\ byTokenHash' = S2.byTokenHash
  /\ last' = NoLast
  /\ revokeLog' = IF jti \in DOMAIN byJti THEN revokeLog \cup {jti} ELSE revokeLog
  /\ UNCHANGED <<env, now, rotateLog, httpVars>>

\* the clock advances by one second
Tick ==
  /\ now < MaxNow
  /\ now' = now + 1
  /\ last' = NoLast
  /\ reply' = NoReply
  /\ UNCHANGED <<env, byJti, byTokenHash, rotateLog, revokeLog, db, procs>>

Next ==
  \/ \E u \in Users : Issue(u)
  \/ \E t \in Tokens : Verify(t)
  \/ \E t \in Tokens : Rotate(t)
  \/ \E j \in Jtis : RevokeByJti(j)
  \/ Tick

Spec == Init /\ [][Next]_vars

(* ----------------- store calls with every call observed ---------------- *)
\* verify(token), its argument and result kept in `last`
VerifyCall(token) ==
  \E S2 \in {verifyStore(Store, token, now)} :
  /\ byJti' = S2.byJti
  /\ byTokenHash' = S2.byTokenHash
  /\ last' = [op |-> "verify", token |-> token,
              result |-> verify(Store, token, now), pre |-> byJti]
  /\ UNCHANGED <<env, now, rotateLog, revokeLog, httpVars>>

\* revokeByJti(jti), its argument kept in `last`
RevokeCall(jti) ==
  \E S2 \in {revokeByJti(Store, jti)} :
  /\ byJti' = S2.byJti
  /\ byTokenHash' = S2.byTokenHash
  /\ last' = [op |-> "revokeByJti", jti |-> jti, pre |-> byJti]
  /\ revokeLog' = IF jti \in DOMAIN byJti THEN revokeLog \cup {jti} ELSE revokeLog
  /\ UNCHANGED <<env, now, rotateLog, httpVars>>

NextCalls ==
  \/ \E u \in Users : Issue(u)
  \/ \E t \in Tokens : VerifyCall(t)
  \/ \E t \in Tokens : Rotate(t)
  \/ \E j \in Jtis : RevokeCall(j)
  \/ Tick

SpecCalls == Init /\ [][NextCalls]_vars

(* ============================ HTTP handlers ============================ *)
TheOne(opt) == CHOOSE x \in opt : TRUE
Max(a, b) == IF a >= b THEN a ELSE b
Without(bag, e) == bag (-) SetToBag({e})
With(bag, e) == bag (+) SetToBag({e})

(* ------------------------------ cookies -------------------------------- *)
REFRESH_COOKIE_NAME == "refresh_token"
COOKIE_DOMAIN == env.COOKIE_DOMAIN
IS_SECURE == env.APP_ENV = {"prod"} \/ env.NODE_ENV = {"production"}

\* the names lib/cookies exports
CookiesExports ==
  {"REFRESH_COOKIE_NAME", "setRefreshCoolie", "clearRefreshCookie", "getRefreshCookie"}

\* import { name } from '../../lib/cookies': a name the module does not export
\* is undefined in the importing handler, and calling it throws a TypeError
Callable(name) == name \in CookiesExports

baseCookieOptions(maxAgeSec) ==
  [httpOnly |-> TRUE, sameSite |-> "lax", secure |-> IS_SECURE,
   domain |-> COOKIE_DOMAIN, path |-> "/", maxAge |-> maxAgeSec]

\* reply.setCookie(REFRESH_COOKIE_NAME, token, baseCookieOptions(maxAgeSec))
setRefreshCoolie(token, maxAgeSec) ==
  [call |-> "setCookie", name |-> REFRESH_COOKIE_NAME, value |-> {token},
   options |-> baseCookieOptions({maxAgeSec})]

\* reply.clearCookie(REFRESH_COOKIE_NAME, {...baseCookieOptions(), maxAge: 0})
clearRefreshCookie ==
  [call |-> "clearCookie", name |-> REFRESH_COOKIE_NAME, value |-> {},
   options |-> [baseCookieOptions({}) EXCEPT !.maxAge = {0}]]

\* cookie values a request can carry: none, or any token string
CookieInputs == {{}} \cup {{t} : t \in Tokens}

(* ------------------------------- CORS ---------------------------------- *)
AppOrigin == "https://app.example"
\* CORS_ALLOWED_ORIGIN is unset, or the string cut at its commas:
\* "https://app.example, " is <<"https://app.example", " ">>
\* Origin headers a request can carry
OriginInputs == { {}, {AppOrigin}, {"https://evil.example"} }
\* and with them an empty header and a second origin of the application
StgOrigin == "https://stg.app.example"
OriginHeaders == OriginInputs \cup { {""}, {StgOrigin} }

trim(x) == IF x = " " THEN "" ELSE x

\* (process.env.CORS_ALLOWED_ORIGIN ?? '').split(',').map(trim).filter(Boolean)
AllowedOrigins ==
  LET items == IF env.CORS_ALLOWED_ORIGIN = {} THEN <<"">>
               ELSE TheOne(env.CORS_ALLOWED_ORIGIN)
  IN {trim(items[i]) : i \in 1..Len(items)} \ {""}

\* !origin: the header is absent, or is the empty string
NoOrigin(origin) == origin = {} \/ TheOne(origin) = ""

\* mutant: the allow-list is not consulted
isAllowedOrigin_AllowsAll(origin) == TRUE

isAllowedOrigin(origin) ==
  IF NoOrigin(origin) THEN TRUE
  ELSE AllowedOrigins = {} \/ TheOne(origin) \in AllowedOrigins

\* the origin callback given to @fastify/cors: cb(null, true) or
\* cb(new Error('CORS not allowed'), false).  Its second test reads the
\* length of the request's origin, not of the list.
corsOrigin(origin) ==
  IF NoOrigin(origin) THEN TRUE
  ELSE TheOne(origin) = "" \/ TheOne(origin) \in AllowedOrigins

(* --------------------------- sessions/refresh --------------------------- *)
\* the strings a JSON body carries: a text of some kind, or an opaque token
\* string as randomToken makes them
Text(kind, text) == [kind |-> kind, text |-> text, raw |-> 0]
Opaque(token) == [kind |-> "opaque", text |-> "", raw |-> token]

\* signAccessToken(appUserId): a signed JWT with the subject appUserId
signAccessToken(appUserId) == Text("jwt", appUserId)

\* reply.send({ error: code })
errorBody(code) == [error |-> Text("code", code)]

\* mutant: the body also carries the refresh token
authBody_WithRefresh(appUserId, accessToken, refresh) ==
  [id |-> Text("id", appUserId), token |-> accessToken,
   refreshToken |-> Opaque(refresh.token)]

\* reply.code(200).send({ user: { id, ... }, token: accessToken }), written
\* where the value issue or rotate returned is in scope as `refresh`
authBody(appUserId, accessToken, refresh) ==
  [id |-> Text("id", appUserId), token |-> accessToken]

BodyValues(body) == {body[f] : f \in DOMAIN body}

\* a reply with an error code carries { error: code }; a 204 carries no body
Reply(handler, status, error, cookies) ==
  [handler |-> handler, status |-> status, error |-> error, cookies |-> cookies,
   body |-> IF error = "" THEN <<>> ELSE errorBody(error)]

\* refreshAuth, from the Origin check to the reply; `token` and `jti` are the
\* random draws of the issue inside rotate.  The import of setRefreshCookie is
\* not Callable, so the call after rotate throws into the catch and the
\* handler never comes to its awaits: the lines after the call are given as
\* one step.
refreshAuth(S, origin, old, token, jti, nowSec) ==
  IF ~isAllowedOrigin(origin)
  THEN [store |-> S, rotated |-> {}, reply |-> Reply("refresh", 401, "CSRF_ORIGIN", {})]
  ELSE IF old = {}
  THEN [store |-> S, rotated |-> {}, reply |-> Reply("refresh", 401, "NO_REFRESH", {})]
  ELSE
    LET r == rotate(S, TheOne(old), token, jti, nowSec) IN
    IF ~r.ok
    THEN [store |-> S, rotated |-> {},
          reply |-> Reply("refresh", 401, "INVALID_REFRESH", {})]
    ELSE IF ~Callable("setRefreshCookie")
    THEN [store |-> r.store, rotated |-> {r},
          reply |-> Reply("refresh", 401, "INVALID_REFRESH", {})]
    ELSE
      LET maxAgeSec == Max(0, r.result.expiresAt - nowSec)
          cookie == setRefreshCoolie(r.result.token, maxAgeSec)
          appUser == {a \in db.appUsers : a.id = r.result.userId}
      IN [store |-> r.store, rotated |-> {r},
          reply |-> IF appUser = {}
                    THEN Reply("refresh", 401, "INVALID_REFRESH", {cookie})
                    ELSE [Reply("refresh", 200, "", {cookie}) EXCEPT
                            !.body = authBody(r.result.userId,
                                              signAccessToken(r.result.userId),
                                              r.result)]]

\* the draws refreshAuth needs: those of issue when the request gets as far
\* as a rotate that finds its record, none otherwise
RefreshDraws(origin, old) ==
  IF isAllowedOrigin(origin) /\ old # {} /\ rotate(Store, TheOne(old), 0, 0, now).ok
  THEN [token : FreshTokens(Store), jti : FreshJtis(Store)]
  ELSE {[token |-> 0, jti |-> 0]}

\* what a handler did to the store, for the properties: the record the
\* presented cookie had before, the ids created, the ids newly revoked, the
\* ids whose rotatedTo changed
Effect(cookie, S2) ==
  [pre |-> IF cookie # {} /\ hashToken(TheOne(cookie)) \in DOMAIN byTokenHash
           THEN {byJti[byTokenHash[hashToken(TheOne(cookie))]]} ELSE {},
   issued |-> DOMAIN S2.byJti \ DOMAIN byJti,
   revoked |-> {j \in DOMAIN byJti : S2.byJti[j].revoked /\ ~byJti[j].revoked},
   rotatedTo |-> {j \in DOMAIN byJti : S2.byJti[j].rotatedTo # byJti[j].rotatedTo}]

\* POST /v1/auth/refresh.  refreshAuth has no await before its reply, and
\* Node runs it to the reply before it dispatches another request: requests
\* that arrive together are handled one after the other, in any order.
RefreshAuth(cookie, origin) ==
  /\ \E d \in RefreshDraws(origin, cookie) :
       \E h \in {refreshAuth(Store, origin, cookie, d.token, d.jti, now)} :
       /\ byJti' = h.store.byJti
       /\ byTokenHash' = h.store.byTokenHash
       /\ rotateLog' = IF h.rotated = {} THEN rotateLog
                       ELSE LogRotate(rotateLog, TheOne(cookie), TheOne(h.rotated).reused)
       /\ reply' = h.reply @@ Effect(cookie, h.store) @@ [origin |-> origin]
  /\ UNCHANGED <<env, now, last, revokeLog, db, procs>>

(* ------------------------------- logout -------------------------------- *)
\* mutant: no try/catch around verify; the error reaches Fastify, which
\* replies 500 before the cookie is cleared
logoutAuth_NoCatch(S, token, nowSec) ==
  IF token # {} /\ ~verify(S, TheOne(token), nowSec).ok
  THEN [store |-> S, reply |-> Reply("logout", 500, "INTERNAL_ERROR", {})]
  ELSE [store |-> IF token = {} THEN S
                  ELSE revokeByJti(S, verify(S, TheOne(token), nowSec).jti),
        reply |-> Reply("logout", 204, "", {clearRefreshCookie})]

\* mutant: logout ends every session of the subject
logoutAuth_RevokesSubject(S, token, nowSec) ==
  LET v == verify(S, TheOne(token), nowSec)
      S2 == IF token # {} /\ v.ok
            THEN [S EXCEPT !.byJti = [j \in DOMAIN S.byJti |->
                    IF S.byJti[j].userId = v.userId
                    THEN [S.byJti[j] EXCEPT !.revoked = TRUE] ELSE S.byJti[j]]]
            ELSE S
  IN [store |-> S2, reply |-> Reply("logout", 204, "", {clearRefreshCookie})]

\* logoutAuth: try { verify; revokeByJti } catch { log }; clear the cookie; 204
logoutAuth(S, token, nowSec) ==
  LET v == verify(S, TheOne(token), nowSec)
      S2 == IF token # {} /\ v.ok THEN revokeByJti(S, v.jti) ELSE S
  IN [store |-> S2, reply |-> Reply("logout", 204, "", {clearRefreshCookie})]

\* POST /v1/auth/logout
LogoutAuth(cookie) ==
  \E h \in {logoutAuth(Store, cookie, now)} :
  /\ byJti' = h.store.byJti
  /\ byTokenHash' = h.store.byTokenHash
  /\ revokeLog' = revokeLog \cup Effect(cookie, h.store).revoked
  /\ reply' = h.reply @@ Effect(cookie, h.store)
  /\ UNCHANGED <<env, now, last, rotateLog, db, procs>>

(* ------------------------------ bootstrap ------------------------------ *)
\* ID tokens a client can send: a Google token with a verified email, and a
\* token whose signature does not verify
IdTokens ==
  { [iss |-> "google", valid |-> TRUE, sub |-> "a", email |-> {"e1"}, email_verified |-> TRUE],
    [iss |-> "google", valid |-> FALSE, sub |-> "a", email |-> {"e1"}, email_verified |-> TRUE] }

\* request bodies: one BodySchema rejects, and provider with idToken
Bodies ==
  {[ok |-> FALSE]} \cup {[ok |-> TRUE, provider |-> t.iss, idToken |-> t] : t \in IdTokens}

NoProfile == [providerAccountId |-> "", email |-> {}, emailVerified |-> FALSE]

\* verifyGoogleIdToken / verifyAppleIdToken: jose's jwtVerify against the
\* provider's keys and audience, then the issuer test
verifyIdToken(provider, idToken) ==
  IF idToken.valid /\ idToken.iss = provider
  THEN [ok |-> TRUE,
        profile |-> [providerAccountId |-> idToken.sub, email |-> idToken.email,
                     emailVerified |-> idToken.email_verified = TRUE]]
  ELSE [ok |-> FALSE, profile |-> NoProfile]

\* ids the database and uuidv7() give: one representative of the unused ones
AuthUserIds == {"c1", "c2"}
FreshOf(pool, used) ==
  IF pool \ used = {} THEN {} ELSE {CHOOSE x \in pool \ used : TRUE}
FreshAuthUserIds == FreshOf(AuthUserIds, {u.id : u \in db.users})
FreshAppUserIds == FreshOf(Users, {a.id : a \in db.appUsers})

NoEffect == [pre |-> {}, issued |-> {}, revoked |-> {}, rotatedTo |-> {}]

Resume(proc, next) ==
  /\ procs' = With(Without(procs, proc), next)
  /\ reply' = NoReply

Finish(proc, r) ==
  /\ procs' = Without(procs, proc)
  /\ reply' = r @@ NoEffect

AtAwait(proc, pc) == BagIn(proc, procs) /\ proc.pc = pc

\* POST /v1/auth/bootstrap: BodySchema.safeParse, then the await of jwtVerify;
\* at most `cap` invocations are suspended at once
BootstrapStart(body, cap) ==
  /\ IF ~body.ok
     THEN /\ reply' = Reply("bootstrap", 400, "INVALID_BODY", {})
                        @@ NoEffect
          /\ procs' = procs
     ELSE /\ BagCardinality(procs) < cap
          /\ procs' = With(procs, [pc |-> "jwtVerify", provider |-> body.provider,
                                   idToken |-> body.idToken, p |-> NoProfile,
                                   user |-> {}, appUser |-> {}])
          /\ reply' = NoReply
  /\ UNCHANGED <<env, now, byJti, byTokenHash, last, rotateLog, revokeLog, db>>

BootstrapAuth(body) == BootstrapStart(body, MaxBootstraps)

\* jwtVerify settles; on success upsertAuthUserAndAccount sends account.findUnique
JwtVerified(proc) ==
  /\ AtAwait(proc, "jwtVerify")
  /\ LET v == verifyIdToken(proc.provider, proc.idToken) IN
     IF v.ok
     THEN Resume(proc, [proc EXCEPT !.pc = "account.findUnique", !.p = v.profile])
     ELSE Finish(proc, Reply("bootstrap", 401, "ID_TOKEN_INVALID", {}))
  /\ UNCHANGED <<env, now, byJti, byTokenHash, last, rotateLog, revokeLog, db>>

\* prisma.account.findUnique({provider, providerAccountId}) runs
AccountFindUnique(proc) ==
  /\ AtAwait(proc, "account.findUnique")
  /\ LET existing == {a \in db.accounts : /\ a.provider = proc.provider
                                          /\ a.providerAccountId = proc.p.providerAccountId}
     IN IF existing # {}
        THEN Resume(proc, [proc EXCEPT !.pc = "appUser.findUnique",
                                       !.user = {TheOne(existing).userId}])
        ELSE IF proc.p.email # {}
        THEN Resume(proc, [proc EXCEPT !.pc = "user.findUnique"])
        ELSE Resume(proc, [proc EXCEPT !.pc = "user.create"])
  /\ UNCHANGED <<env, now, byJti, byTokenHash, last, rotateLog, revokeLog, db>>

\* prisma.user.findUnique({email}) runs
UserFindUnique(proc) ==
  /\ AtAwait(proc, "user.findUnique")
  /\ LET found == {u \in db.users : u.email = proc.p.email} IN
     IF found # {}
     THEN Resume(proc, [proc EXCEPT !.pc = "account.create", !.user = {TheOne(found).id}])
     ELSE Resume(proc, [proc EXCEPT !.pc = "user.create"])
  /\ UNCHANGED <<env, now, byJti, byTokenHash, last, rotateLog, revokeLog, db>>

\* prisma.user.create runs: users.email is UNIQUE
UserCreate(proc) ==
  /\ AtAwait(proc, "user.create")
  /\ IF proc.p.email # {} /\ \E u \in db.users : u.email = proc.p.email
     THEN /\ Finish(proc, Reply("bootstrap", 401, "ID_TOKEN_INVALID", {}))
          /\ db' = db
     ELSE \E id \in FreshAuthUserIds :
          /\ db' = [db EXCEPT !.users = @ \cup
                      {[id |-> id, email |-> proc.p.email,
                        emailVerified |-> proc.p.emailVerified]}]
          /\ Resume(proc, [proc EXCEPT !.pc = "account.create", !.user = {id}])
  /\ UNCHANGED <<env, now, byJti, byTokenHash, last, rotateLog, revokeLog>>

\* prisma.account.create runs: (provider, provider_account_id) is unique
AccountCreate(proc) ==
  /\ AtAwait(proc, "account.create")
  /\ IF \E a \in db.accounts : /\ a.provider = proc.provider
                              /\ a.providerAccountId = proc.p.providerAccountId
     THEN /\ Finish(proc, Reply("bootstrap", 401, "ID_TOKEN_INVALID", {}))
          /\ db' = db
     ELSE /\ db' = [db EXCEPT !.accounts = @ \cup
                      {[userId |-> TheOne(proc.user), type |-> "oidc",
                        provider |-> proc.provider,
                        providerAccountId |-> proc.p.providerAccountId]}]
          /\ Resume(proc, [proc EXCEPT !.pc = "appUser.findUnique"])
  /\ UNCHANGED <<env, now, byJti, byTokenHash, last, rotateLog, revokeLog>>

\* getOrCreateAppUser: prisma.appUser.findUnique({authUserId}) runs
AppUserFindUnique(proc) ==
  /\ AtAwait(proc, "appUser.findUnique")
  /\ LET existing == {a \in db.appUsers : a.authUserId = TheOne(proc.user)} IN
     IF existing # {}
     THEN Resume(proc, [proc EXCEPT !.pc = "issue", !.appUser = {TheOne(existing).id}])
     ELSE Resume(proc, [proc EXCEPT !.pc = "appUser.create"])
  /\ UNCHANGED <<env, now, byJti, byTokenHash, last, rotateLog, revokeLog, db>>

\* prisma.appUser.create({id: uuidv7(), authUserId}) runs: auth_user_id is unique
AppUserCreate(proc) ==
  /\ AtAwait(proc, "appUser.create")
  /\ IF \E a \in db.appUsers : a.authUserId = TheOne(proc.user)
     THEN /\ Finish(proc, Reply("bootstrap", 401, "ID_TOKEN_INVALID", {}))
          /\ db' = db
     ELSE \E id \in FreshAppUserIds :
          /\ db' = [db EXCEPT !.appUsers = @ \cup
                      {[id |-> id, authUserId |-> TheOne(proc.user)]}]
          /\ Resume(proc, [proc EXCEPT !.pc = "issue", !.appUser = {id}])
  /\ UNCHANGED <<env, now, byJti, byTokenHash, last, rotateLog, revokeLog>>

\* bootstrapAuth after getOrCreateAppUser: issue, the cookie, the reply.  The
\* import of setRefreshCookie is not Callable, so the call throws into the
\* catch; the lines after it (the await of signAccessToken, the 200) are
\* given as one step.
bootstrapIssue(S, appUserId, token, jti, nowSec) ==
  LET refresh == issue(S, appUserId, token, jti, nowSec)
      maxAgeSec == Max(0, refresh.result.expiresAt - nowSec)
  IN [store |-> refresh.store,
      reply |-> IF ~Callable("setRefreshCookie")
                THEN Reply("bootstrap", 401, "ID_TOKEN_INVALID", {})
                ELSE [Reply("bootstrap", 200, "",
                            {setRefreshCoolie(refresh.result.token, maxAgeSec)})
                        EXCEPT !.body = authBody(appUserId, signAccessToken(appUserId),
                                                 refresh.result)]]

BootstrapIssue(proc) ==
  /\ AtAwait(proc, "issue")
  /\ \E token \in FreshTokens(Store), jti \in FreshJtis(Store) :
       \E h \in {bootstrapIssue(Store, TheOne(proc.appUser), token, jti, now)} :
       /\ byJti' = h.store.byJti
       /\ byTokenHash' = h.store.byTokenHash
       /\ procs' = Without(procs, proc)
       /\ reply' = h.reply @@ Effect({}, h.store)
  /\ UNCHANGED <<env, now, last, rotateLog, revokeLog, db>>

(* --------------------------- the HTTP server --------------------------- *)
\* the environments the server is started in: nothing set, and a short
\* refresh TTL with a list of allowed origins (the TTL is read by the store
\* alone and the list by the Origin check alone)
HttpEnvs ==
  { [REFRESH_TOKEN_TTL |-> {}, CORS_ALLOWED_ORIGIN |-> {},
     APP_ENV |-> {}, NODE_ENV |-> {}, COOKIE_DOMAIN |-> {}],
    [REFRESH_TOKEN_TTL |-> Str(<<"9", "0", "0", "m", "s">>),
     CORS_ALLOWED_ORIGIN |-> {<<AppOrigin, " ">>},
     APP_ENV |-> {}, NODE_ENV |-> {}, COOKIE_DOMAIN |-> {}] }

InitHttp ==
  /\ env \in HttpEnvs
  /\ Constructed

NextHttp ==
  \/ \E body \in Bodies : BootstrapAuth(body)
  \/ \E proc \in BagToSet(procs) : JwtVerified(proc)
  \/ \E proc \in BagToSet(procs) : AccountFindUnique(proc)
  \/ \E proc \in BagToSet(procs) : UserFindUnique(proc)
  \/ \E proc \in BagToSet(procs) : UserCreate(proc)
  \/ \E proc \in BagToSet(procs) : AccountCreate(proc)
  \/ \E proc \in BagToSet(procs) : AppUserFindUnique(proc)
  \/ \E proc \in BagToSet(procs) : AppUserCreate(proc)
  \/ \E proc \in BagToSet(procs) : BootstrapIssue(proc)
  \/ \E cookie \in CookieInputs, origin \in OriginInputs : RefreshAuth(cookie, origin)
  \/ \E cookie \in CookieInputs : LogoutAuth(cookie)
  \/ Tick

SpecHttp == InitHttp /\ [][NextHttp]_vars

(* ---------------------- the server's environments ---------------------- *)
\* APP_ENV is local, stg or prod (or unset); NODE_ENV is set by the runtime
CookieEnvs ==
  [REFRESH_TOKEN_TTL : {{}}, CORS_ALLOWED_ORIGIN : {{}},
   APP_ENV : {{}, {"local"}, {"stg"}, {"prod"}},
   NODE_ENV : {{}, {"production"}},
   COOKIE_DOMAIN : {{}}]

InitCookies ==
  /\ env \in CookieEnvs
  /\ Constructed

\* the requests that read or write the refresh cookie, on a store filled by
\* issue
NextCookies ==
  \/ \E u \in Users : Issue(u)
  \/ \E cookie \in CookieInputs : RefreshAuth(cookie, {})
  \/ \E cookie \in CookieInputs : LogoutAuth(cookie)

SpecCookies == InitCookies /\ [][NextCookies]_vars

(* ---------------------- bootstrap requests together -------------------- *)
\* ID tokens of two identities that give the same email address: a Google
\* identity whose email is verified and an Apple identity whose email is
\* not; and a token whose signature does not verify
LinkTokens ==
  { [iss |-> "google", valid |-> TRUE, sub |-> "a", email |-> {"e1"}, email_verified |-> TRUE],
    [iss |-> "apple", valid |-> TRUE, sub |-> "b", email |-> {"e1"}, email_verified |-> FALSE],
    [iss |-> "google", valid |-> FALSE, sub |-> "a", email |-> {"e1"}, email_verified |-> TRUE] }

LinkBodies == {[ok |-> TRUE, provider |-> t.iss, idToken |-> t] : t \in LinkTokens}

InitBootstrap ==
  /\ env \in [REFRESH_TOKEN_TTL : {{}}, CORS_ALLOWED_ORIGIN : {{}},
              APP_ENV : {{}}, NODE_ENV : {{}}, COOKIE_DOMAIN : {{}}]
  /\ Constructed

\* bootstrap requests, up to MaxConcurrent of them between their first await
\* and their reply; the database runs one query at a time, in any order
NextBootstrap ==
  \/ \E body \in LinkBodies : BootstrapStart(body, MaxConcurrent)
  \/ \E proc \in BagToSet(procs) : JwtVerified(proc)
  \/ \E proc \in BagToSet(procs) : AccountFindUnique(proc)
  \/ \E proc \in BagToSet(procs) : UserFindUnique(proc)
  \/ \E proc \in BagToSet(procs) : UserCreate(proc)
  \/ \E proc \in BagToSet(procs) : AccountCreate(proc)
  \/ \E proc \in BagToSet(procs) : AppUserFindUnique(proc)
  \/ \E proc \in BagToSet(procs) : AppUserCreate(proc)
  \/ \E proc \in BagToSet(procs) : BootstrapIssue(proc)

SpecBootstrap == InitBootstrap /\ [][NextBootstrap]_vars

(* ------------------------- the Origin checks --------------------------- *)
\* values of CORS_ALLOWED_ORIGIN, cut at the commas: unset, the empty
\* string, blanks only, one origin, one origin and a blank, two origins
CorsEnvs ==
  [REFRESH_TOKEN_TTL : {{}},
   CORS_ALLOWED_ORIGIN : { {}, {<<"">>}, {<<" ", "">>}, {<<AppOrigin>>},
                           {<<AppOrigin, " ">>}, {<<AppOrigin, StgOrigin>>} },
   APP_ENV : {{}}, NODE_ENV : {{}}, COOKIE_DOMAIN : {{}}]

InitOrigin ==
  /\ env \in CorsEnvs
  /\ Constructed

\* a request that goes through the hook of @fastify/cors: the plugin calls
\* the origin callback with the request's Origin header
CorsHook(origin) ==
  /\ reply' = [handler |-> "cors", origin |-> origin, allowed |-> corsOrigin(origin)]
  /\ UNCHANGED <<env, now, byJti, byTokenHash, last, rotateLog, revokeLog, db, procs>>

NextOrigin ==
  \/ \E u \in Users : Issue(u)
  \/ \E cookie \in CookieInputs, origin \in OriginHeaders : RefreshAuth(cookie, origin)
  \/ \E origin \in OriginHeaders : CorsHook(origin)

SpecOrigin == InitOrigin /\ [][NextOrigin]_vars

(* ------------------- the store under every TTL setting ----------------- *)
\* characters a REFRESH_TOKEN_TTL value is made of here: digits, the unit
\* letters, and a letter that is in no unit
TtlAlphabet == {"0", "1", "9", "m", "s", "h", "d", "x"}
\* every string over TtlAlphabet of at most MaxTtlLen characters
MaxTtlLen == 3
TtlStrings == UNION {[1..n -> TtlAlphabet] : n \in 0..MaxTtlLen}
\* longer values and values with other characters: the documented examples,
\* units in upper case, the rounding of ms at a multiple of 1000, a sign,
\* a fraction, blanks, a unit without a number
TtlExamples ==
  { <<"3", "0", "d">>, <<"9", "0", "0", "s">>, <<"9", "0", "0", "m", "s">>,
    <<"1", "0", "0", "0", "m", "s">>, <<"1", "0", "0", "1", "m", "s">>,
    <<"1", "5", "M">>, <<"1", "H">>, <<"2", "D">>, <<"5", "S">>,
    <<"1", "M", "s">>, <<"1", "m", "S">>, <<"0", "0", "7", "h">>,
    <<"-", "1", "s">>, <<"1", ".", "5", "h">>, <<" ", "5", "s">>,
    <<"5", " ", "s">>, <<"5", "s", " ">>, <<"1", "0", "m", "i", "n">> }

InitTtl ==
  /\ env \in [REFRESH_TOKEN_TTL : {{}} \cup {Str(s) : s \in TtlStrings \cup TtlExamples},
              CORS_ALLOWED_ORIGIN : {{}}, APP_ENV : {{}}, NODE_ENV : {{}},
              COOKIE_DOMAIN : {{}}]
  /\ Constructed

NextTtl ==
  \/ \E u \in Users : Issue(u)
  \/ Tick

SpecTtl == InitTtl /\ [][NextTtl]_vars

(* ======================= properties of the store ======================= *)
RecordOf(token) == byJti[byTokenHash[hashToken(token)]]
Stored(token) ==
  /\ hashToken(token) \in DOMAIN byTokenHash
  /\ byTokenHash[hashToken(token)] \in DOMAIN byJti
\* the record a token had before the call `last` describes
PreRecordOf(token) == last.pre[byTokenHash[hashToken(token)]]

IssueVerifies ==
  LET v == verify(Store, last.result.token, now) IN
  /\ v.ok
  /\ v.userId = last.userId
  /\ v.jti = last.result.jti
  /\ last.result.jti \notin DOMAIN last.pre

\* C1 (as stated): right after issue(S), verify of the returned token succeeds
\* with subject S and the id issue returned, and that id is the id of no
\* record that existed before the call.
C1_IssueThenVerify == last.op = "issue" => IssueVerifies

\* C1 (amended): the same, when the configured refresh TTL is at least one
\* second (with a TTL of 0 the record is born expired).
C1_IssueThenVerifyPositiveTtl ==
  (last.op = "issue" /\ REFRESH_TTL_SECONDS > 0) => IssueVerifies

C1_Witness ==
  /\ last.op = "issue"
  /\ REFRESH_TTL_SECONDS > 0
  /\ last.pre # <<>>
  /\ now > 0
  /\ verify(Store, last.result.token, now).ok

RotatedJust == last.op = "rotate" /\ last.result.ok

NewTokenVerifies ==
  LET v == verify(Store, last.result.result.token, now) IN
  /\ v.ok
  /\ v.userId = PreRecordOf(last.token).userId
  /\ v.jti = last.result.result.jti

FirstRotate ==
  /\ RotatedJust
  /\ PreRecordOf(last.token).rotatedTo = {}
  /\ ~PreRecordOf(last.token).revoked

RotatedTokensRevoked ==
  \A t \in DOMAIN rotateLog :
    verify(Store, t, now) = Failure("REVOKED_REFRESH")

\* C2 (as stated): the first rotate of a token that was never rotated or
\* revoked returns reused = false and a new token that verifies with the
\* same subject, and verify of the old token fails with REVOKED_REFRESH in
\* every later state.
C2_FirstRotate ==
  /\ FirstRotate => (~last.result.reused /\ NewTokenVerifies)
  /\ RotatedTokensRevoked

\* C2 (amended): the same, the new token verifying when the configured
\* refresh TTL is at least one second.
C2_FirstRotatePositiveTtl ==
  /\ FirstRotate => ~last.result.reused
  /\ (FirstRotate /\ REFRESH_TTL_SECONDS > 0) => NewTokenVerifies
  /\ RotatedTokensRevoked

C2_Witness ==
  /\ FirstRotate
  /\ REFRESH_TTL_SECONDS > 0
  /\ ~last.result.reused
  /\ verify(Store, last.result.result.token, now).ok
  /\ verify(Store, last.token, now) = Failure("REVOKED_REFRESH")

\* C5 (as stated): once a record's rotatedTo is set, no step changes or
\* clears it.
C5_RotatedToWrittenOnce ==
  [][\A j \in DOMAIN byJti :
       byJti[j].rotatedTo # {} => byJti'[j].rotatedTo = byJti[j].rotatedTo]_vars

SecondRotate ==
  /\ RotatedJust
  /\ PreRecordOf(last.token).rotatedTo # {}

\* C6 (as stated): rotate of a token whose record already has rotatedTo set
\* succeeds with reused = true and a further token that verifies with the
\* subject of the original record.
C6_RotateAgain ==
  /\ (last.op = "rotate" /\ Stored(last.token) /\ PreRecordOf(last.token).rotatedTo # {})
       => last.result.ok
  /\ SecondRotate => (last.result.reused /\ NewTokenVerifies)

\* C6 (amended): the same, the further token verifying when the configured
\* refresh TTL is at least one second.
C6_RotateAgainPositiveTtl ==
  /\ (last.op = "rotate" /\ Stored(last.token) /\ PreRecordOf(last.token).rotatedTo # {})
       => last.result.ok
  /\ SecondRotate => last.result.reused
  /\ (SecondRotate /\ REFRESH_TTL_SECONDS > 0) => NewTokenVerifies

C6_Witness ==
  /\ SecondRotate
  /\ REFRESH_TTL_SECONDS > 0
  /\ last.result.reused
  /\ verify(Store, last.result.result.token, now).ok

\* C8: once revokeByJti(id) has been called on an existing record, verify of
\* that record's token fails with REVOKED_REFRESH in every later state.
C8_RevokedStaysRevoked ==
  \A t \in Tokens :
    (Stored(t) /\ byTokenHash[hashToken(t)] \in revokeLog)
      => verify(Store, t, now) = Failure("REVOKED_REFRESH")

\* a record revoked by revokeByJti, rotated afterwards and now past its expiry
C8_Witness ==
  \E t \in Tokens :
    /\ Stored(t)
    /\ byTokenHash[hashToken(t)] \in revokeLog
    /\ t \in DOMAIN rotateLog
    /\ now >= RecordOf(t).expiresAt
    /\ now > 0

\* C10: verify fails with REVOKED_REFRESH when the matched record is revoked
\* (expired or not), and with EXPIRED_REFRESH exactly when the record exists,
\* is not revoked and now >= expiresAt.
C10_VerifyFailures ==
  \A t \in Tokens :
    LET v == verify(Store, t, now) IN
    /\ (Stored(t) /\ RecordOf(t).revoked) => v = Failure("REVOKED_REFRESH")
    /\ (v = Failure("EXPIRED_REFRESH"))
         <=> (Stored(t) /\ ~RecordOf(t).revoked /\ now >= RecordOf(t).expiresAt)

\* the boundary now = expiresAt on a live record, beside a record that is
\* both revoked and expired
C10_Witness ==
  \E t, u \in Tokens :
    /\ Stored(t) /\ Stored(u)
    /\ ~RecordOf(t).revoked /\ now = RecordOf(t).expiresAt
    /\ RecordOf(u).revoked /\ now >= RecordOf(u).expiresAt
    /\ REFRESH_TTL_SECONDS > 0

\* the token issue or rotate returned in the call `last` describes
ReturnedToken ==
  IF last.op = "issue" THEN last.result.token ELSE last.result.result.token

\* C11: verify of a token that issue or rotate never returned fails with
\* INVALID_REFRESH in every state: a token without a record is not found,
\* and a token gets a record only in the issue or rotate call that returns it.
C11_NeverIssuedNotFound ==
  /\ [](\A t \in Tokens \cup {0} :
          ~Stored(t) => verify(Store, t, now) = Failure("INVALID_REFRESH"))
  /\ [][\A t \in Tokens \cup {0} :
          (~Stored(t) /\ Stored(t)')
            => (/\ last'.op \in {"issue", "rotate"}
                /\ (last'.op = "rotate" => last'.result.ok)
                /\ ReturnedToken' = t)]_vars

\* tokens never returned, beside records that are live, revoked and rotated
C11_Witness ==
  /\ \E t \in Tokens : ~Stored(t) /\ verify(Store, t, now) = Failure("INVALID_REFRESH")
  /\ \E t \in Tokens : Stored(t) /\ verify(Store, t, now).ok
  /\ \E t \in Tokens : Stored(t) /\ RecordOf(t).rotatedTo # {}
  /\ revokeLog # {}

\* the token a record was issued for
TokenOf(rec) == rec.tokenHash[2]

\* every record but the presented one is as it was before the call
OthersUntouched ==
  \A j \in DOMAIN last.pre :
    j # byTokenHash[hashToken(last.token)] => byJti[j] = last.pre[j]

\* the first successor T2 of the presented record, when it was verifiable
\* before the call
FirstSuccessorLive ==
  LET succ == last.pre[TheOne(PreRecordOf(last.token).rotatedTo)] IN
  ~succ.revoked /\ ~isExpired(now, succ.expiresAt)

FirstSuccessorVerifies ==
  LET succ == last.pre[TheOne(PreRecordOf(last.token).rotatedTo)]
      v == verify(Store, TokenOf(succ), now)
  IN v.ok /\ v.userId = PreRecordOf(last.token).userId

\* C12 (as stated): after issue -> T1, rotate(T1) -> T2 and a second
\* rotate(T1) -> T3 with reused = true, verify(T2) and verify(T3) both
\* succeed for the original subject; the reuse revokes no record but the
\* presented one.
C12_ReuseRevokesOnlyPresented ==
  SecondRotate =>
    /\ last.result.reused
    /\ OthersUntouched
    /\ NewTokenVerifies
    /\ FirstSuccessorLive => FirstSuccessorVerifies

\* C12 (amended): the reuse changes no record but the presented one, so T2
\* verifies after it exactly as before it; T3 verifies when the configured
\* refresh TTL is at least one second.
C12_ReuseRevokesOnlyPresentedPositiveTtl ==
  SecondRotate =>
    /\ last.result.reused
    /\ OthersUntouched
    /\ REFRESH_TTL_SECONDS > 0 => NewTokenVerifies
    /\ FirstSuccessorLive => FirstSuccessorVerifies

C12_Witness ==
  /\ SecondRotate
  /\ last.result.reused
  /\ REFRESH_TTL_SECONDS > 0
  /\ FirstSuccessorLive
  /\ FirstSuccessorVerifies
  /\ verify(Store, last.result.result.token, now).ok

\* C13: a record whose revoked flag is true keeps it true in every step.
C13_RevokedMonotonic ==
  [][\A j \in DOMAIN byJti :
       byJti[j].revoked => (j \in DOMAIN byJti' /\ byJti'[j].revoked)]_vars

\* a record revoked by revokeByJti and rotated twice since
C13_Witness ==
  \E t \in DOMAIN rotateLog :
    /\ byTokenHash[hashToken(t)] \in revokeLog
    /\ rotateLog[t].reuse >= 1
    /\ RecordOf(t).revoked

\* C14: verify succeeds for the token of a record exactly when the record
\* is not expired, not revoked and has no rotatedTo.
C14_CurrentRecordsOnly ==
  \A t \in Tokens :
    Stored(t) =>
      (verify(Store, t, now).ok
         <=> (/\ ~isExpired(now, RecordOf(t).expiresAt)
              /\ ~RecordOf(t).revoked
              /\ RecordOf(t).rotatedTo = {}))

\* a live record beside a rotated one and an expired one
C14_Witness ==
  /\ \E t \in Tokens : Stored(t) /\ verify(Store, t, now).ok
  /\ \E t \in Tokens : Stored(t) /\ RecordOf(t).rotatedTo # {}
  /\ \E t \in Tokens : Stored(t) /\ ~RecordOf(t).revoked
                         /\ isExpired(now, RecordOf(t).expiresAt)

\* C21: a step that is a call of issue adds exactly one record to each index
\* and changes no record and no digest entry that was there, so every token
\* that verified before the call, the subject's other tokens among them,
\* verifies with the same result after it.
C21_IssueFrame ==
  [][last'.op = "issue" =>
       /\ Cardinality(DOMAIN byJti') = Cardinality(DOMAIN byJti) + 1
       /\ Cardinality(DOMAIN byTokenHash') = Cardinality(DOMAIN byTokenHash) + 1
       /\ \A j \in DOMAIN byJti : j \in DOMAIN byJti' /\ byJti'[j] = byJti[j]
       /\ \A h \in DOMAIN byTokenHash :
            h \in DOMAIN byTokenHash' /\ byTokenHash'[h] = byTokenHash[h]
       /\ \A t \in Tokens :
            verify(Store, t, now).ok
              => verify(Store', t, now') = verify(Store, t, now)]_vars

\* issue for a subject that already held a token that verifies: the subject
\* now holds two
C21_Witness ==
  /\ last.op = "issue"
  /\ \E j \in DOMAIN last.pre :
       /\ last.pre[j].userId = last.userId
       /\ byJti[j] = last.pre[j]
       /\ verify(Store, TokenOf(byJti[j]), now).ok
  /\ verify(Store, last.result.token, now).ok

\* C22: rotate of a token whose digest has no record fails with
\* INVALID_REFRESH whatever issue would draw, and a step that is such a call
\* leaves both indexes as they were.
C22_RotateNotFound ==
  /\ [](\A t \in Tokens \cup {0} :
          ~Stored(t) =>
            \A token \in Tokens, jti \in Jtis :
              rotate(Store, t, token, jti, now) = Failure("INVALID_REFRESH"))
  /\ [][(last'.op = "rotate" /\ ~Stored(last'.token)) =>
          /\ last'.result = Failure("INVALID_REFRESH")
          /\ byJti' = byJti
          /\ byTokenHash' = byTokenHash]_vars

\* rotate of a token never issued, on a store that holds a rotated record
\* and a record that verifies
C22_Witness ==
  /\ last.op = "rotate"
  /\ ~Stored(last.token)
  /\ last.result = Failure("INVALID_REFRESH")
  /\ byJti = last.pre
  /\ rotateLog # <<>>
  /\ \E t \in Tokens : Stored(t) /\ verify(Store, t, now).ok

\* the value of a string of decimal digits
RECURSIVE DecimalValue(_)
DecimalValue(ds) ==
  IF ds = <<>> THEN 0
  ELSE DigitValue(Head(ds)) * 10^(Len(ds) - 1) + DecimalValue(Tail(ds))

\* seconds in one unit of a well-formed value; the unit is read in either
\* case, and ms is not a whole number of seconds
SecondsPerUnit(unit) ==
  CASE unit \in {<<>>, <<"s">>, <<"S">>} -> 1
    [] unit \in {<<"m">>, <<"M">>} -> 60
    [] unit \in {<<"h">>, <<"H">>} -> 3600
    [] unit \in {<<"d">>, <<"D">>} -> 86400

MsUnits == {<<"m", "s">>, <<"M", "S">>, <<"M", "s">>, <<"m", "S">>}

\* the ways to read value as one or more decimal digits followed by an
\* optional unit: the number of digits
WellFormedSplits(value) ==
  {k \in 1..Len(value) :
     /\ \A i \in 1..k : value[i] \in Digits
     /\ SubSeq(value, k + 1, Len(value)) \in
          {<<>>, <<"s">>, <<"S">>, <<"m">>, <<"M">>, <<"h">>, <<"H">>,
           <<"d">>, <<"D">>} \cup MsUnits}

\* the TTL the configuration stands for: 30 days when the variable is unset
\* or malformed, else the number converted to seconds by its unit
ConfiguredTtl(input) ==
  IF input = {} \/ WellFormedSplits(TheOne(input)) = {} THEN 2592000
  ELSE LET value == TheOne(input)
           k == CHOOSE x \in WellFormedSplits(value) : TRUE
           n == DecimalValue(SubSeq(value, 1, k))
           unit == SubSeq(value, k + 1, Len(value))
       IN IF unit \in MsUnits
          THEN CHOOSE q \in 0..n : q * 1000 >= n /\ (q = 0 \/ (q - 1) * 1000 < n)
          ELSE n * SecondsPerUnit(unit)

\* C23: the refresh TTL is 2,592,000 seconds when REFRESH_TOKEN_TTL is unset
\* or is not decimal digits followed by an optional ms|s|m|h|d unit (read in
\* either case); for a well-formed value it is the number converted to
\* seconds by its unit, ms rounded up; and the record an issue call stores,
\* like the value it returns, has expiresAt = time of the call + that TTL.
C23_TtlParsing ==
  /\ REFRESH_TTL_SECONDS = ConfiguredTtl(env.REFRESH_TOKEN_TTL)
  /\ Cardinality(WellFormedSplits(IF env.REFRESH_TOKEN_TTL = {} THEN <<>>
                                  ELSE TheOne(env.REFRESH_TOKEN_TTL))) <= 1
  /\ last.op = "issue" =>
       /\ last.result.expiresAt = now + ConfiguredTtl(env.REFRESH_TOKEN_TTL)
       /\ byJti[last.result.jti].expiresAt = last.result.expiresAt

\* an issue call one second after start-up under a TTL of "1ms", which is
\* rounded up to one second
C23_Witness ==
  /\ env.REFRESH_TOKEN_TTL = Str(<<"1", "m", "s">>)
  /\ last.op = "issue"
  /\ now = 1
  /\ byJti[last.result.jti].expiresAt = 2

\* C24: in every state each digest entry names an id that has a record, and
\* that record carries the digest; each record is stored under its own id
\* and is named by exactly one digest entry; and no step removes an id or a
\* digest from its index.
C24_IndexesAgree ==
  /\ [](/\ \A h \in DOMAIN byTokenHash :
             /\ byTokenHash[h] \in DOMAIN byJti
             /\ byJti[byTokenHash[h]].tokenHash = h
        /\ \A j \in DOMAIN byJti :
             /\ byJti[j].jti = j
             /\ Cardinality({h \in DOMAIN byTokenHash : byTokenHash[h] = j}) = 1)
  /\ [][/\ DOMAIN byJti \subseteq DOMAIN byJti'
        /\ DOMAIN byTokenHash \subseteq DOMAIN byTokenHash']_vars

\* three records: one rotated into another, one revoked by revokeByJti
C24_Witness ==
  /\ Cardinality(DOMAIN byJti) = MaxJti
  /\ Cardinality(DOMAIN byTokenHash) = MaxJti
  /\ rotateLog # <<>>
  /\ revokeLog # {}

(* ======================= properties of the server ====================== *)
Presented == TheOne(reply.pre)
Rejected == reply.status = 401 /\ reply.issued = {} /\ reply.cookies = {}

\* C3 (as stated): a refresh request whose cookie is the token of an
\* expired record is answered 401, and no refresh token is issued.
C3_ExpiredRefreshRejected ==
  (/\ reply.handler = "refresh"
   /\ reply.pre # {}
   /\ isExpired(now, Presented.expiresAt))
    => Rejected

\* C4 (as stated): a refresh request whose cookie is the token of a record
\* that revokeByJti revoked and that was never rotated is answered 401, and
\* no refresh token is issued.
C4_RevokedRefreshRejected ==
  (/\ reply.handler = "refresh"
   /\ reply.pre # {}
   /\ Presented.revoked
   /\ Presented.rotatedTo = {}
   /\ Presented.jti \in revokeLog)
    => Rejected

\* C7: of the rotate calls that refresh requests made on one token, in
\* whatever order the requests were dispatched, exactly one saw
\* reused = false and every other one reused = true.
C7_OneFirstRotation ==
  \A t \in DOMAIN rotateLog : rotateLog[t].first = 1

\* two or more refresh requests have rotated the same token
C7_Witness ==
  \E t \in DOMAIN rotateLog : rotateLog[t].first = 1 /\ rotateLog[t].reuse >= 1

\* C9: logout replies 204 and clears the refresh cookie for every cookie
\* value in every state; no error of verify or revokeByJti reaches the
\* client.
C9_LogoutNeverFails ==
  /\ reply.handler = "logout"
       => (reply.status = 204 /\ reply.cookies = {clearRefreshCookie})
  /\ \A cookie \in CookieInputs :
       LET r == logoutAuth(Store, cookie, now).reply IN
       r.status = 204 /\ r.cookies = {clearRefreshCookie}

\* a logout with the token of a record already rotated (verify threw), while
\* a bootstrap handler is suspended
C9_Witness ==
  /\ reply.handler = "logout"
  /\ reply.pre # {}
  /\ Presented.rotatedTo # {}
  /\ reply.status = 204
  /\ procs # EmptyBag

\* C15: in every state another handler can see, a record rotate has revoked
\* has rotatedTo set to the id of a stored record of the same subject, and a
\* revoked record without rotatedTo is one revokeByJti revoked: rotate's
\* writes are never seen in part.
C15_RotationAtomic ==
  /\ \A t \in DOMAIN rotateLog :
       /\ RecordOf(t).revoked
       /\ RecordOf(t).rotatedTo # {}
       /\ \A j \in RecordOf(t).rotatedTo :
            j \in DOMAIN byJti /\ byJti[j].userId = RecordOf(t).userId
  /\ \A j \in DOMAIN byJti :
       (byJti[j].revoked /\ byJti[j].rotatedTo = {}) => j \in revokeLog

\* a bootstrap handler suspended at an await while the store holds a record
\* a refresh request rotated and a record a logout revoked
C15_Witness ==
  /\ procs # EmptyBag
  /\ rotateLog # <<>>
  /\ \E j \in DOMAIN byJti : byJti[j].revoked /\ byJti[j].rotatedTo = {}

\* C16 (as stated): a bootstrap or refresh request for which the store
\* issued a refresh token is answered 200 and sets the refresh cookie, its
\* value the token issue or rotate returned and its max-age
\* max(0, expiresAt - now).
C16_CookieCarriesIssuedToken ==
  (reply.handler \in {"bootstrap", "refresh"} /\ reply.issued # {}) =>
    LET rec == byJti[TheOne(reply.issued)] IN
    /\ reply.status = 200
    /\ reply.cookies = {setRefreshCoolie(TokenOf(rec), Max(0, rec.expiresAt - now))}

\* the cookies the last reply wrote or cleared
CookiesWritten == IF reply.handler = "none" THEN {} ELSE reply.cookies

\* C17 (as stated): every refresh cookie the API writes or clears is
\* HttpOnly, SameSite=Lax and path '/', and is Secure when APP_ENV is stg or
\* prod.
C17_CookieAttributes ==
  \A c \in CookiesWritten :
    /\ c.options.httpOnly
    /\ c.options.sameSite = "lax"
    /\ c.options.path = "/"
    /\ env.APP_ENV \in {{"stg"}, {"prod"}} => c.options.secure

\* the value issue or rotate returned for a stored record
ResultOf(rec) ==
  [token |-> TokenOf(rec), jti |-> rec.jti, userId |-> rec.userId,
   expiresAt |-> rec.expiresAt]

\* C18: no body a bootstrap, refresh or logout reply carries holds a refresh
\* token: not the body of the reply just sent, and not the body the 200
\* replies are given for any stored record; its token field is the access
\* token.
C18_NoRefreshTokenInBody ==
  /\ reply.handler # "none" =>
       \A t \in Tokens : Opaque(t) \notin BodyValues(reply.body)
  /\ \A j \in DOMAIN byJti :
       LET body == authBody(byJti[j].userId, signAccessToken(byJti[j].userId),
                            ResultOf(byJti[j]))
       IN /\ \A t \in Tokens : Opaque(t) \notin BodyValues(body)
          /\ body.token = signAccessToken(byJti[j].userId)

\* the reply to a refresh request that rotated a token and issued a new one
C18_Witness ==
  /\ reply.handler = "refresh"
  /\ reply.issued # {}
  /\ reply.pre # {}
  /\ reply.body = errorBody("INVALID_REFRESH")

\* C25 (as stated): a refresh request answered 401 has left the store as it
\* was (no record created, none revoked, no rotatedTo written) and sets no
\* cookie on the reply.
C25_Refresh401LeavesStore ==
  (reply.handler = "refresh" /\ reply.status = 401) =>
    /\ reply.issued = {}
    /\ reply.revoked = {}
    /\ reply.rotatedTo = {}
    /\ reply.cookies = {}

\* a refresh request that was turned away at the Origin check: 401
\* CSRF_ORIGIN, and the store as it was, so rotate was not called
TurnedAway ==
  /\ reply.status = 401
  /\ reply.error = "CSRF_ORIGIN"
  /\ reply.issued = {}
  /\ reply.revoked = {}
  /\ reply.rotatedTo = {}

\* C26 (as stated): a refresh request whose Origin header is not in a
\* non-empty CORS_ALLOWED_ORIGIN list is answered 401 CSRF_ORIGIN and rotate
\* is not called for it; a request without an Origin header is not turned
\* away at the Origin check.
C26_OriginCheck ==
  reply.handler = "refresh" =>
    /\ (reply.origin # {} /\ AllowedOrigins # {}
          /\ TheOne(reply.origin) \notin AllowedOrigins) => TurnedAway
    /\ reply.origin = {} => reply.error # "CSRF_ORIGIN"

\* C26 (amended): the same for an Origin header that is not the empty
\* string; a request whose Origin header is absent or empty is not turned
\* away at the Origin check.
C26_OriginCheckNonEmptyHeader ==
  reply.handler = "refresh" =>
    /\ (reply.origin \notin {{}, {""}} /\ AllowedOrigins # {}
          /\ TheOne(reply.origin) \notin AllowedOrigins) => TurnedAway
    /\ reply.origin \in {{}, {""}} => reply.error # "CSRF_ORIGIN"

\* a request from an origin that is not in the list, its cookie the token
\* of a record that verifies and that the request has left as it was
C26_Witness ==
  /\ reply.handler = "refresh"
  /\ AllowedOrigins = {AppOrigin, StgOrigin}
  /\ reply.origin = {"https://evil.example"}
  /\ TurnedAway
  /\ reply.pre # {}
  /\ byJti[Presented.jti] = Presented
  /\ verify(Store, TokenOf(Presented), now).ok

\* C29 (as stated): for every Origin header, absent or present, and every
\* CORS_ALLOWED_ORIGIN list, the empty list among them, the cors origin
\* callback allows a request exactly when isAllowedOrigin allows it: what
\* the callback answered is what isAllowedOrigin gives for the same header,
\* and a refresh request passes the Origin check exactly when the callback
\* would allow its header.
C29_SameOriginDecision ==
  /\ reply.handler = "cors" => reply.allowed = isAllowedOrigin(reply.origin)
  /\ reply.handler = "refresh" =>
       (reply.error # "CSRF_ORIGIN") = corsOrigin(reply.origin)

\* the requests in progress and the accounts stored are all of one identity
OneIdentity ==
  \E id \in {[provider |-> t.iss, sub |-> t.sub] : t \in LinkTokens} :
    /\ \A proc \in BagToSet(procs) :
         proc.provider = id.provider /\ proc.idToken.sub = id.sub
    /\ \A a \in db.accounts :
         a.provider = id.provider /\ a.providerAccountId = id.sub

\* C27 (as stated): bootstrap requests that run together with valid ID tokens
\* of one identity are all answered 200, in every interleaving of their
\* database steps; the requests that reach issue do so with one and the same
\* AppUser id; and the database holds at most one Account per (provider,
\* providerAccountId) and one AppUser per auth user, exactly one once such a
\* request has been answered.
C27_ConcurrentBootstrap ==
  /\ [][\A proc \in BagToSet(procs) :
          (/\ OneIdentity
           /\ proc.pc # "jwtVerify"
           /\ procs' = Without(procs, proc)
           /\ reply'.handler = "bootstrap")
            => /\ reply'.status = 200
               /\ \E a \in db'.accounts : /\ a.provider = proc.provider
                                          /\ a.providerAccountId = proc.p.providerAccountId
               /\ \E u \in db'.appUsers : u.authUserId = TheOne(proc.user)]_vars
  /\ [](OneIdentity =>
          /\ \A p1, p2 \in BagToSet(procs) :
               (p1.pc = "issue" /\ p2.pc = "issue") => p1.appUser = p2.appUser
          /\ \A j1, j2 \in DOMAIN byJti : byJti[j1].userId = byJti[j2].userId)
  /\ [](/\ \A a1, a2 \in db.accounts :
             (a1.provider = a2.provider /\ a1.providerAccountId = a2.providerAccountId)
               => a1 = a2
        /\ \A u1, u2 \in db.appUsers : u1.authUserId = u2.authUserId => u1 = u2)

\* C28 (as stated): a step in which account.create attaches an account to a
\* User that already has an account is a step of a request whose verified ID
\* token has email_verified = true.  (The request goes on to issue a refresh
\* token for that User's AppUser.)
C28_LinkOnlyVerifiedEmail ==
  [][\A acc \in db'.accounts \ db.accounts :
       (\E a \in db.accounts : a.userId = acc.userId)
         => \A proc \in BagToSet(procs) :
              (/\ proc.pc = "account.create"
               /\ proc.provider = acc.provider
               /\ proc.p.providerAccountId = acc.providerAccountId)
                => proc.p.emailVerified]_vars

\* C30: a step that is a logout request leaves the digest index and the ids
\* of the by-id index as they were; the one record it may change is the
\* record whose digest matches the cookie, and of that only the revoked flag,
\* from false to true; so verify of every other token, the subject's other
\* tokens and the successors of the presented token among them, gives after
\* the logout what it gave before.
C30_LogoutFrame ==
  [][reply'.handler = "logout" =>
       /\ byTokenHash' = byTokenHash
       /\ DOMAIN byJti' = DOMAIN byJti
       /\ \A j \in DOMAIN byJti :
            \/ byJti'[j] = byJti[j]
            \/ /\ reply'.pre # {}
               /\ TheOne(reply'.pre) = byJti[j]
               /\ byJti'[j] = [byJti[j] EXCEPT !.revoked = TRUE]
       /\ \A t \in Tokens :
            (reply'.pre = {} \/ TokenOf(TheOne(reply'.pre)) # t)
              => verify(Store', t, now') = verify(Store, t, now)]_vars

\* a logout that revoked the presented record while the subject holds
\* another token, which still verifies, beside a record rotated earlier
C30_Witness ==
  /\ reply.handler = "logout"
  /\ reply.revoked # {}
  /\ byJti[Presented.jti].revoked
  /\ \E j \in DOMAIN byJti :
       /\ j # Presented.jti
       /\ byJti[j].userId = Presented.userId
       /\ verify(Store, TokenOf(byJti[j]), now).ok
  /\ rotateLog # <<>>

(* =================== properties of the single calls ==================== *)
\* C19: revokeByJti with an id that has no record returns without an error
\* and leaves both indexes and every record as they were.
C19_RevokeUnknownNoOp ==
  /\ [](\A j \in Jtis \cup {0} :
          j \notin DOMAIN byJti => revokeByJti(Store, j) = Store)
  /\ [][(last'.op = "revokeByJti" /\ last'.jti \notin DOMAIN byJti)
          => (byJti' = byJti /\ byTokenHash' = byTokenHash)]_vars

\* revokeByJti was just called with an id that has no record, on a store
\* that holds a live record and a revoked one
C19_Witness ==
  /\ last.op = "revokeByJti"
  /\ last.jti \notin DOMAIN byJti
  /\ \E t \in Tokens : Stored(t) /\ verify(Store, t, now).ok
  /\ \E t \in Tokens : Stored(t) /\ RecordOf(t).revoked

\* C20: verify writes nothing: after a call, whatever its result, the
\* records and the two indexes are what they were before it.
C20_VerifyPureRead ==
  /\ [](\A t \in Tokens \cup {0} : verifyStore(Store, t, now) = Store)
  /\ [][last'.op = "verify"
          => (byJti' = byJti /\ byTokenHash' = byTokenHash)]_vars

\* verify has just failed with EXPIRED_REFRESH on a store that also holds a
\* revoked record
C20_Witness ==
  /\ last.op = "verify"
  /\ last.result = Failure("EXPIRED_REFRESH")
  /\ byJti = last.pre
  /\ \E t \in Tokens : Stored(t) /\ RecordOf(t).revoked

====
